---- MODULE Spec2Model ----
(***************************************************************************)
(* Model of ble2lsl/devices/muse2016.py: PacketHandler.process_packet,     *)
(* PacketHandler._process_status and _unpack, with the module's tables.    *)
(*                                                                         *)
(* Conventions                                                             *)
(*  - A packet is a sequence of bytes (0..255); a string is a sequence of  *)
(*    character codes.                                                     *)
(*  - Converted values are exact rationals kept as integers over a fixed   *)
(*    denominator per stream (EEG_DEN, ACC_DEN, GYR_DEN, TLM_DEN); float32 *)
(*    rounding of the non-dyadic IMU factors is not modelled.              *)
(*  - A Python exception ends the call; every assignment executed before   *)
(*    the raise is kept and the exception's name is recorded in `raised`.  *)
(*  - PARAMS is read at two places with keys the dict does not have at its *)
(*    top level: PARAMS["chunk_size"] (line 93, evaluated at import) and   *)
(*    PARAMS["numpy_dtypes"] (line 133).  Read literally the module cannot *)
(*    be imported and process_packet never runs.  Both reads are modelled  *)
(*    as the entries of PARAMS["streams"] they name (chunk_size of eeg,    *)
(*    numpy_dtype), which is what the handler's logic is written against.  *)
(*  - BasePacketHandler is not part of the modelled file; the buffers it   *)
(*    allocates are channel_count x chunk_size matrices of zeros and the   *)
(*    sample indices start at zero.                                        *)
(***************************************************************************)
EXTENDS Integers, Sequences, FiniteSets, TLC

(***************************************************************************)
(* Module tables                                                           *)
(***************************************************************************)
STREAMS == <<"eeg", "accelerometer", "gyroscope", "telemetry", "status">>

StreamNames == {STREAMS[i] : i \in 1..Len(STREAMS)}

\* PARAMS["streams"]["channel_count"] and PARAMS["streams"]["chunk_size"]
channel_count ==
    [name \in StreamNames |->
        CASE name = "eeg" -> 5
          [] name = "accelerometer" -> 3
          [] name = "gyroscope" -> 3
          [] name = "telemetry" -> 4
          [] OTHER -> 1]

chunk_size ==
    [name \in StreamNames |->
        CASE name = "eeg" -> 12
          [] name = "accelerometer" -> 3
          [] name = "gyroscope" -> 3
          [] OTHER -> 1]

HANDLE_NAMES ==
    (14 :> "status") @@ (26 :> "telemetry") @@ (23 :> "accelerometer") @@
    (20 :> "gyroscope") @@ (32 :> "eeg") @@ (35 :> "eeg") @@ (38 :> "eeg") @@
    (41 :> "eeg") @@ (44 :> "eeg")

\* n copies of a format token
Times(tok, n) == [i \in 1..n |-> tok]

\* A format is a sequence of <<kind, width>> tokens, kind "uint" or "int".
PACKET_FORMATS ==
    [name \in StreamNames |->
        CASE name = "eeg" ->
                <<(<<"uint", 16>>)>> \o Times(<<"uint", 12>>, chunk_size["eeg"])
          [] name = "accelerometer" ->
                <<(<<"uint", 16>>)>> \o Times(<<"int", 16>>, 9)
          [] name = "gyroscope" ->
                <<(<<"uint", 16>>)>> \o Times(<<"int", 16>>, 9)
          [] name = "telemetry" ->
                <<(<<"uint", 16>>)>> \o Times(<<"uint", 16>>, 4)
          [] OTHER -> Times(<<"uint", 8>>, 20)]

EEG_HANDLE_CH_IDXS ==
    (32 :> 0) @@ (35 :> 1) @@ (38 :> 2) @@ (41 :> 3) @@ (44 :> 4)

EEG_HANDLE_RECEIVE_ORDER == <<44, 41, 38, 32, 35>>

(***************************************************************************)
(* _unpack: bitstring.Bits(bytes=packet).unpack(packet_format)             *)
(***************************************************************************)
\* The number whose base-256 digits are bytes i..j of the packet (1-based).
RECURSIVE BytesValue(_, _, _)
BytesValue(packet, i, j) ==
    IF j < i THEN 0 ELSE 256 * BytesValue(packet, i, j - 1) + packet[j]

\* The unsigned value of the w bits starting at bit pos (0-based, the most
\* significant bit of the first byte first): the bytes that hold those bits,
\* without the bits to their right and to their left.
ReadUint(packet, pos, w) ==
    LET firstByte == (pos \div 8) + 1
        lastByte == ((pos + w - 1) \div 8) + 1
        right == 8 * lastByte - (pos + w)
    IN  (BytesValue(packet, firstByte, lastByte) \div (2 ^ right)) % (2 ^ w)

\* Faulty variant: the sign of int:w is ignored
ReadToken_unsigned(packet, pos, tok) == ReadUint(packet, pos, tok[2])

\* One token: uint:w is the unsigned value, int:w its two's complement.
ReadToken(packet, pos, tok) ==
    LET u == ReadUint(packet, pos, tok[2])
    IN  IF tok[1] = "int" /\ u >= 2 ^ (tok[2] - 1) THEN u - 2 ^ tok[2] ELSE u

\* Tokens are read left to right; a token that would run past the last bit
\* raises ReadError.  Bits left over after the last token are ignored.
RECURSIVE ReadList(_, _, _)
ReadList(packet, fmt, pos) ==
    IF fmt = <<>> THEN [err |-> FALSE, vals |-> <<>>]
    ELSE IF Head(fmt)[2] > 8 * Len(packet) - pos
         THEN [err |-> TRUE, vals |-> <<>>]
         ELSE LET rest == ReadList(packet, Tail(fmt), pos + Head(fmt)[2])
              IN  IF rest.err THEN rest
                  ELSE [err |-> FALSE,
                        vals |-> <<ReadToken(packet, pos, Head(fmt))>> \o rest.vals]

_unpack(packet, packet_format) == ReadList(packet, packet_format, 0)

(***************************************************************************)
(* CONVERT_FUNCS                                                           *)
(***************************************************************************)
EEG_DEN == 256          \* 0.48828125   = 125 / 256
ACC_DEN == 625000000    \* 0.0000610352 = 38147 / 625000000
GYR_DEN == 625000       \* 0.0074768    = 4673 / 625000
TLM_DEN == 2560         \* 1/512 = 5/2560, 2.2 = 5632/2560

\* data.reshape((3, 3)): row-major
Reshape33(data) == [r \in 1..3 |-> [c \in 1..3 |-> data[3 * (r - 1) + c]]]

\* Faulty variant: 0.48828125 * data - 2048
Convert_eeg_unbracketed(data) == [i \in 1..Len(data) |-> 125 * data[i] - 2048 * EEG_DEN]

Convert_eeg(data) == [i \in 1..Len(data) |-> 125 * (data[i] - 2048)]

Convert_accelerometer(data) ==
    [r \in 1..3 |-> [c \in 1..3 |-> 38147 * Reshape33(data)[r][c]]]

Convert_gyroscope(data) ==
    [r \in 1..3 |-> [c \in 1..3 |-> 4673 * Reshape33(data)[r][c]]]

Convert_telemetry(data) ==
    <<5 * data[1], 5632 * data[2], 2560 * data[3], 2560 * data[4]>>

CONVERT_FUNCS(name, data) ==
    CASE name = "eeg" -> Convert_eeg(data)
      [] name = "accelerometer" -> Convert_accelerometer(data)
      [] name = "gyroscope" -> Convert_gyroscope(data)
      [] name = "telemetry" -> Convert_telemetry(data)

(***************************************************************************)
(* Strings: chr, slicing, str.replace, ast.literal_eval                    *)
(***************************************************************************)
NEWLINE == 10
SPACE == 32
QUOTE == 34
COLON == 58
LBRACE == 123
RBRACE == 125

\* s[:n] for n >= 0
Slice(s, n) == SubSeq(s, 1, IF n < Len(s) THEN n ELSE Len(s))

\* s.replace('\n', '')
RemoveNewlines(s) == SelectSeq(s, LAMBDA c : c # NEWLINE)

IsDigit(c) == c \in 49..57

\* First position >= pos that does not hold a space (Len(s) + 1 if none).
RECURSIVE SkipSpaces(_, _)
SkipSpaces(s, pos) ==
    IF pos <= Len(s) /\ s[pos] = SPACE THEN SkipSpaces(s, pos + 1) ELSE pos

\* First position >= pos that does not hold a digit.
RECURSIVE SkipDigits(_, _)
SkipDigits(s, pos) ==
    IF pos <= Len(s) /\ IsDigit(s[pos]) THEN SkipDigits(s, pos + 1) ELSE pos

\* First position >= pos that holds a double quote (Len(s) + 1 if none).
RECURSIVE FindQuote(_, _)
FindQuote(s, pos) ==
    IF pos <= Len(s) /\ s[pos] # QUOTE THEN FindQuote(s, pos + 1) ELSE pos

ParseFail == [ok |-> FALSE, pos |-> 0, val |-> <<>>, hashable |-> FALSE]

\* First position >= pos where three double quotes start (Len(s) + 1 if none).
RECURSIVE FindTriple(_, _)
FindTriple(s, pos) ==
    IF pos + 2 > Len(s) THEN Len(s) + 1
    ELSE IF s[pos] = QUOTE /\ s[pos + 1] = QUOTE /\ s[pos + 2] = QUOTE THEN pos
    ELSE FindTriple(s, pos + 1)

\* One or more adjacent string literals starting at the quote at pos, each
\* "..." or """..."""; the value is the concatenation of their contents
\* between one pair of quotes.
RECURSIVE ParseString(_, _)
ParseString(s, pos) ==
    LET triple == pos + 2 <= Len(s) /\ s[pos + 1] = QUOTE /\ s[pos + 2] = QUOTE
        first == IF triple THEN pos + 3 ELSE pos + 1
        close == IF triple THEN FindTriple(s, first) ELSE FindQuote(s, first)
    IN  IF close > Len(s) THEN ParseFail
        ELSE LET body == SubSeq(s, first, close - 1)
                 after == IF triple THEN close + 3 ELSE close + 1
                 next == SkipSpaces(s, after)
             IN  IF next <= Len(s) /\ s[next] = QUOTE
                 THEN LET more == ParseString(s, next)
                      IN  IF ~more.ok THEN ParseFail
                          ELSE [more EXCEPT !.val = <<QUOTE>> \o body \o Tail(more.val)]
                 ELSE [ok |-> TRUE, pos |-> after,
                       val |-> <<QUOTE>> \o body \o <<QUOTE>>, hashable |-> TRUE]

\* The literal starting at pos (which holds no space): an integer, a string,
\* the empty dict, a one-entry dict or a one-element set.  val is the literal
\* written without optional spaces; keys and set elements must be hashable.
RECURSIVE ParseValue(_, _)
ParseValue(s, pos) ==
    IF pos > Len(s) THEN ParseFail
    ELSE IF IsDigit(s[pos]) THEN
        LET end == SkipDigits(s, pos)
        IN  IF end <= Len(s) /\ s[end] \notin {SPACE, COLON, RBRACE} THEN ParseFail
            ELSE [ok |-> TRUE, pos |-> end, val |-> SubSeq(s, pos, end - 1),
                  hashable |-> TRUE]
    ELSE IF s[pos] = QUOTE THEN ParseString(s, pos)
    ELSE IF s[pos] = LBRACE THEN
        LET p1 == SkipSpaces(s, pos + 1)
        IN  IF p1 <= Len(s) /\ s[p1] = RBRACE
            THEN [ok |-> TRUE, pos |-> p1 + 1, val |-> <<LBRACE, RBRACE>>,
                  hashable |-> FALSE]
            ELSE LET v1 == ParseValue(s, p1)
                     p2 == SkipSpaces(s, v1.pos)
                 IN  IF ~v1.ok \/ ~v1.hashable \/ p2 > Len(s) THEN ParseFail
                     ELSE IF s[p2] = RBRACE
                     THEN [ok |-> TRUE, pos |-> p2 + 1,
                           val |-> <<LBRACE>> \o v1.val \o <<RBRACE>>,
                           hashable |-> FALSE]
                     ELSE IF s[p2] = COLON
                     THEN LET v2 == ParseValue(s, SkipSpaces(s, p2 + 1))
                              p4 == SkipSpaces(s, v2.pos)
                          IN  IF ~v2.ok \/ p4 > Len(s) THEN ParseFail
                              ELSE IF s[p4] # RBRACE THEN ParseFail
                              ELSE [ok |-> TRUE, pos |-> p4 + 1,
                                    val |-> <<LBRACE>> \o v1.val \o <<COLON>>
                                            \o v2.val \o <<RBRACE>>,
                                    hashable |-> FALSE]
                     ELSE ParseFail
    ELSE ParseFail

\* ast.literal_eval(text), for texts over the characters { } " : 1..9, the
\* space and letters: the value, or a raised SyntaxError, ValueError or
\* TypeError (ok = FALSE).  Leading and trailing spaces are allowed.
literal_eval(text) ==
    LET v == ParseValue(text, SkipSpaces(text, 1))
    IN  IF v.ok /\ SkipSpaces(text, v.pos) = Len(text) + 1 THEN v ELSE ParseFail

(***************************************************************************)
(* State                                                                   *)
(***************************************************************************)
VARIABLES
    _subscriptions,  \* stream names the handler was constructed with
    _message,        \* status text accumulated so far
    _sample_idxs,    \* per stream: last sample index (eeg: one per channel)
    _chunks,         \* per stream: channel_count x chunk_size matrix
    emitted,         \* the _callback calls made by the most recent call
    raised,          \* the exception the most recent call ended with, or "none"
    last,            \* the most recent notification
    filled,          \* eeg channel indices written since the previous eeg emission
    flushed,         \* TRUE iff the most recent eeg write emitted the chunk
    run,             \* the notifications that follow the eeg receive order so far
    seq,             \* the status fragments fed since _message was last empty
    ncalls,          \* notifications delivered (counted in Spec only)
    probe,           \* input and result of a function applied on its own
    threads          \* per delivering thread: where it is in process_packet

handler == <<_subscriptions, _message, _sample_idxs, _chunks>>

vars == <<_subscriptions, _message, _sample_idxs, _chunks, emitted, raised,
          last, filled, flushed, run, seq, ncalls, probe, threads>>

ZeroMatrix(name) ==
    [r \in 1..channel_count[name] |-> [c \in 1..chunk_size[name] |-> 0]]

(***************************************************************************)
(* PacketHandler                                                           *)
(***************************************************************************)

\* Faulty variant: HANDLE_NAMES.get(handle, "telemetry")
LookupName_default(handle) ==
    IF handle \in DOMAIN HANDLE_NAMES
    THEN [err |-> FALSE, name |-> HANDLE_NAMES[handle]]
    ELSE [err |-> FALSE, name |-> "telemetry"]

\* HANDLE_NAMES[handle]: a dict subscript, KeyError for a missing key
LookupName(handle) ==
    IF handle \in DOMAIN HANDLE_NAMES
    THEN [err |-> FALSE, name |-> HANDLE_NAMES[handle]]
    ELSE [err |-> TRUE, name |-> "KeyError"]

\* Faulty variant: the subscription test is missing
NotSubscribed_never(name, subscriptions) == FALSE

\* name not in self._subscriptions
NotSubscribed(name, subscriptions) == name \notin subscriptions

\* Faulty variant: unpacked[1]
SampleIndex_second(unpacked) == unpacked[2]

\* unpacked[0]
SampleIndex(unpacked) == unpacked[1]

\* Faulty variant: unpacked[:-1]
Payload_shifted(unpacked) == SubSeq(unpacked, 1, Len(unpacked) - 1)

\* np.array(unpacked[1:], dtype=...)
Payload(unpacked) == Tail(unpacked)

\* Faulty variant: handle == EEG_HANDLE_RECEIVE_ORDER[0]
IsLastExpected_first(handle) == handle = EEG_HANDLE_RECEIVE_ORDER[1]

\* Faulty variant: the chunk is flushed after every eeg packet
IsLastExpected_always(handle) == TRUE

\* handle == EEG_HANDLE_RECEIVE_ORDER[-1]
IsLastExpected(handle) ==
    handle = EEG_HANDLE_RECEIVE_ORDER[Len(EEG_HANDLE_RECEIVE_ORDER)]

\* Faulty variant: self._chunks[name][:] = value
SetRow_all(matrix, idx, value) == [r \in DOMAIN matrix |-> value]

\* self._chunks[name][idx] = value: row idx (0-based) of the buffer is assigned
SetRow(matrix, idx, value) == [matrix EXCEPT ![idx + 1] = value]

\* self._chunks[name][:, :] = value: every cell of the buffer is assigned
\* (the four telemetry values fill the 4 x 1 buffer as one column).
AssignAll(name, value) ==
    IF name = "telemetry" THEN [r \in 1..4 |-> <<value[r]>>] ELSE value

\* One self._callback(name, sample index, chunk) call.  The sample-index
\* argument is kept as the sequence of its entries: an array as it is, a
\* scalar as a sequence of one.
Emission(name, idx, data) == [name |-> name, idx |-> idx, data |-> data]

\* "".join(message_chars)[:unpacked[0]]
StatusPartial(unpacked) == Slice(Tail(unpacked), unpacked[1])

\* Faulty variant: status_message_partial[0] == '}'
EndsWithBrace_first(partial) == partial[1] = RBRACE

\* status_message_partial[-1] == '}'
EndsWithBrace(partial) == partial[Len(partial)] = RBRACE

\* _process_status as a function of the buffer and the decoded fields: the
\* buffer afterwards, the callbacks made and the exception raised, if any.
_process_status(message, unpacked) ==
    LET status_message_partial == StatusPartial(unpacked)
        appended == message \o status_message_partial
    IN  IF status_message_partial = <<>>
        THEN [message |-> appended, emitted |-> <<>>, raised |-> "IndexError"]
        ELSE IF EndsWithBrace(status_message_partial)
        THEN LET stripped == RemoveNewlines(appended)
                 parsed == literal_eval(stripped)
             IN  IF parsed.ok
                 THEN [message |-> <<>>,
                       emitted |-> <<Emission("status", <<-1>>, parsed.val)>>,
                       raised |-> "none"]
                 ELSE [message |-> stripped, emitted |-> <<>>,
                       raised |-> "SyntaxError"]
        ELSE [message |-> appended, emitted |-> <<>>, raised |-> "none"]

\* The call ends with exception exc before any assignment or callback.
Raise(exc) ==
    /\ raised' = exc
    /\ emitted' = <<>>
    /\ UNCHANGED handler

process_packet(handle, packet) ==
    LET looked == LookupName(handle)
        name == looked.name
        u == _unpack(packet, PACKET_FORMATS[name])
        unpacked == u.vals
    IN  IF looked.err THEN Raise("KeyError")
        ELSE IF u.err THEN Raise("ReadError")
        ELSE IF NotSubscribed(name, _subscriptions)
        THEN /\ raised' = "none"
             /\ emitted' = <<>>
             /\ UNCHANGED handler
        ELSE IF name = "status"
        THEN LET st == _process_status(_message, unpacked)
             IN  /\ _message' = st.message
                 /\ emitted' = st.emitted
                 /\ UNCHANGED <<_subscriptions, _chunks>>
                 /\ IF st.raised # "none"
                    THEN raised' = st.raised /\ UNCHANGED _sample_idxs
                    ELSE \* lines 143-144: the index is stored, then the
                         \* unassigned local `data` is read
                         /\ _sample_idxs' =
                               [_sample_idxs EXCEPT !["status"] = SampleIndex(unpacked)]
                         /\ raised' = "UnboundLocalError"
        ELSE IF name = "eeg"
        THEN LET idx == EEG_HANDLE_CH_IDXS[handle]
                 data == Payload(unpacked)
             IN  /\ _sample_idxs' =
                       [_sample_idxs EXCEPT !["eeg"][idx + 1] = SampleIndex(unpacked)]
                 /\ _chunks' =
                       [_chunks EXCEPT !["eeg"] =
                           SetRow(_chunks["eeg"], idx, CONVERT_FUNCS("eeg", data))]
                 /\ emitted' =
                       IF IsLastExpected(handle)
                       THEN <<Emission("eeg", _sample_idxs'["eeg"], _chunks'["eeg"])>>
                       ELSE <<>>
                 /\ raised' = "none"
                 /\ UNCHANGED <<_subscriptions, _message>>
        ELSE LET data == Payload(unpacked)
             IN  /\ _sample_idxs' =
                       [_sample_idxs EXCEPT ![name] = SampleIndex(unpacked)]
                 /\ _chunks' =
                       [_chunks EXCEPT ![name] = AssignAll(name, CONVERT_FUNCS(name, data))]
                 /\ emitted' = <<Emission(name, <<_sample_idxs'[name]>>, _chunks'[name])>>
                 /\ raised' = "none"
                 /\ UNCHANGED <<_subscriptions, _message>>

(***************************************************************************)
(* Observers: what a test harness around the handler records               *)
(***************************************************************************)
\* Total bit width of a stream's packet format
RECURSIVE FormatBits(_)
FormatBits(fmt) == IF fmt = <<>> THEN 0 ELSE Head(fmt)[2] + FormatBits(Tail(fmt))

\* A notification from a mapped handle whose length is its format's length
WellFormed(n) ==
    /\ n.handle \in DOMAIN HANDLE_NAMES
    /\ 8 * Len(n.packet) = FormatBits(PACKET_FORMATS[HANDLE_NAMES[n.handle]])

StreamOf(n) == HANDLE_NAMES[n.handle]

Fields(n) == _unpack(n.packet, PACKET_FORMATS[StreamOf(n)]).vals

\* A notification from a mapped handle that _unpack accepts
Decodes(n) ==
    /\ n.handle \in DOMAIN HANDLE_NAMES
    /\ ~_unpack(n.packet, PACKET_FORMATS[StreamOf(n)]).err

EmittedOf(name, ems) == SelectSeq(ems, LAMBDA e : e.name = name)

AllSlots == 0..4

NoRun == <<>>

NoSeq == [text |-> <<>>, emits |-> 0, early |-> FALSE]

\* filled, flushed: an eeg write closes the cycle when it emits; the next
\* eeg write opens a new one.
ObserveEeg(n) ==
    IF /\ n.handle \in DOMAIN EEG_HANDLE_CH_IDXS
       /\ raised' = "none"
       /\ "eeg" \in _subscriptions
    THEN /\ filled' = (IF flushed THEN {} ELSE filled) \cup {EEG_HANDLE_CH_IDXS[n.handle]}
         /\ flushed' = (EmittedOf("eeg", emitted') # <<>>)
    ELSE UNCHANGED <<filled, flushed>>

\* run: the longest suffix of the notifications delivered so far that is a
\* prefix of one well-formed cycle in EEG_HANDLE_RECEIVE_ORDER, each with the
\* number of eeg chunks emitted while it was processed.
ObserveRun(n) ==
    LET prev == IF Len(run) = Len(EEG_HANDLE_RECEIVE_ORDER) THEN NoRun ELSE run
        entry == [handle |-> n.handle, packet |-> n.packet,
                  emits |-> Len(EmittedOf("eeg", emitted'))]
    IN  run' = IF WellFormed(n) /\ n.handle = EEG_HANDLE_RECEIVE_ORDER[Len(prev) + 1]
               THEN Append(prev, entry)
               ELSE IF WellFormed(n) /\ n.handle = EEG_HANDLE_RECEIVE_ORDER[1]
               THEN <<entry>>
               ELSE NoRun

\* seq: the valid content of the status fragments processed since _message
\* was last empty, the status records emitted meanwhile, and whether a
\* fragment before the latest one ended with a closing brace.
ObserveStatus(n) ==
    IF /\ n.handle \in DOMAIN HANDLE_NAMES
       /\ StreamOf(n) = "status"
       /\ Decodes(n)
       /\ "status" \in _subscriptions
    THEN LET prev == IF _message = <<>> THEN NoSeq ELSE seq
         IN  seq' = [text |-> prev.text \o StatusPartial(Fields(n)),
                     emits |-> prev.emits + Len(EmittedOf("status", emitted')),
                     early |-> \/ prev.early
                               \/ /\ prev.text # <<>>
                                  /\ prev.text[Len(prev.text)] = RBRACE]
    ELSE UNCHANGED seq

\* One notification is delivered: the handler runs to its end.
Deliver(n) ==
    /\ process_packet(n.handle, n.packet)
    /\ last' = n
    /\ ObserveEeg(n)
    /\ ObserveRun(n)
    /\ ObserveStatus(n)
    /\ UNCHANGED <<probe, threads>>

(***************************************************************************)
(* Notifications fed to the handler                                        *)
(***************************************************************************)
\* index 7; samples 2048 4095 0 2049 2047 1 4094 2048 100 3000 2048 4095
EEG_A == <<0, 7, 128, 15, 255, 0, 8, 1, 127, 240, 1, 255, 232, 0, 6, 75, 184,
           128, 15, 255>>

\* index 3; samples 0 1 2 3 4 5 6 7 8 9 10 4095
EEG_B == <<0, 3, 0, 0, 1, 0, 32, 3, 0, 64, 5, 0, 96, 7, 0, 128, 9, 0, 175, 255>>

\* index 5; values 1 -1 32767 -32768 0 2 -2 100 -100
ACC_A == <<0, 5, 0, 1, 255, 255, 127, 255, 128, 0, 0, 0, 0, 2, 255, 254, 0,
           100, 255, 156>>

\* index 6; values 0 0 16384 0 0 16384 0 0 16384
ACC_B == <<0, 6, 0, 0, 0, 0, 64, 0, 0, 0, 0, 0, 64, 0, 0, 0, 0, 0, 64, 0>>

\* index 9; values -3 3 0 256 -256 1 0 0 -1
GYR_A == <<0, 9, 255, 253, 0, 3, 0, 0, 1, 0, 255, 0, 0, 1, 0, 0, 0, 0, 255, 255>>

\* index 2; values 51200 1000 3 30
TLM_A == <<0, 2, 200, 0, 3, 232, 0, 3, 0, 30>>

\* A status packet: the declared length, the character codes, then padding
\* up to the 19 code positions.
StatusPacket(length, codes, pad) ==
    <<length>> \o codes \o [i \in 1..(19 - Len(codes)) |-> pad]

ST_OPEN == StatusPacket(6, <<LBRACE, QUOTE, 97, QUOTE, COLON, SPACE>>, RBRACE) \* {"a":_
ST_CLOSE == StatusPacket(2, <<49, RBRACE>>, 0)                            \* 1}
ST_WHOLE == StatusPacket(2, <<LBRACE, RBRACE>>, 0)                        \* {}
ST_BREAK == StatusPacket(2, <<LBRACE, NEWLINE>>, RBRACE)                  \* {\n
ST_TAIL == StatusPacket(2, <<RBRACE, NEWLINE>>, 0)                        \* }\n
ST_MID == StatusPacket(2, <<RBRACE, LBRACE>>, 0)                          \* }{
ST_EMPTY == StatusPacket(0, <<>>, 0)                                      \* length 0

Notification(handle, packet) == [handle |-> handle, packet |-> packet]

EegInputs ==
    {Notification(h, p) : h \in DOMAIN EEG_HANDLE_CH_IDXS, p \in {EEG_A, EEG_B}}

StatusInputs ==
    {Notification(14, p) : p \in {ST_OPEN, ST_CLOSE, ST_WHOLE, ST_BREAK, ST_TAIL,
                                  ST_MID, ST_EMPTY}}

MixedWellFormed ==
    {Notification(35, EEG_A), Notification(44, EEG_A), Notification(32, EEG_B),
     Notification(23, ACC_A), Notification(23, ACC_B), Notification(20, GYR_A),
     Notification(26, TLM_A), Notification(14, ST_OPEN),
     Notification(14, ST_CLOSE), Notification(14, ST_WHOLE)}

\* The same notifications one byte short and one byte long
Shorter(n) == Notification(n.handle, SubSeq(n.packet, 1, Len(n.packet) - 1))

Longer(n) == Notification(n.handle, n.packet \o <<0>>)

MixedInputs ==
    MixedWellFormed
        \cup {Shorter(n) : n \in MixedWellFormed}
        \cup {Longer(n) : n \in MixedWellFormed}
        \cup {Notification(99, EEG_A)}

SubscriptionChoices ==
    {StreamNames, {}, {"eeg", "status"}, {"accelerometer", "gyroscope", "telemetry"}}

MaxCalls == 3
MaxMsgLen == 8

\* The accumulated status text is kept within MaxMsgLen characters.
Fits(n) ==
    IF n.handle \in DOMAIN HANDLE_NAMES /\ StreamOf(n) = "status" /\ Decodes(n)
    THEN Len(_message) + Len(StatusPartial(Fields(n))) <= MaxMsgLen
    ELSE TRUE

(***************************************************************************)
(* Specifications                                                          *)
(***************************************************************************)
NoProbe == [kind |-> "none"]

NoThreads == <<>>

\* The handler after __init__, with nothing delivered yet
InitHandler ==
    /\ _subscriptions \in SubscriptionChoices
    /\ _message = <<>>
    /\ _sample_idxs = [name \in StreamNames |->
                          IF name = "eeg" THEN [i \in 1..channel_count["eeg"] |-> 0]
                          ELSE 0]
    /\ _chunks = [name \in StreamNames |-> ZeroMatrix(name)]
    /\ emitted = <<>>
    /\ raised = "none"
    /\ last = Notification(0, <<>>)
    /\ filled = {}
    /\ flushed = FALSE
    /\ run = NoRun
    /\ seq = NoSeq
    /\ ncalls = 0

Init ==
    /\ InitHandler
    /\ probe = NoProbe
    /\ threads = NoThreads

\* Any notification, of any stream and length, up to MaxCalls of them
Next ==
    \E n \in MixedInputs :
        /\ ncalls < MaxCalls
        /\ Fits(n)
        /\ Deliver(n)
        /\ ncalls' = ncalls + 1

Spec == Init /\ [][Next]_vars

\* Well-formed eeg notifications in any order, without end
NextEeg ==
    \E n \in EegInputs :
        /\ Deliver(n)
        /\ UNCHANGED ncalls

SpecEeg == Init /\ [][NextEeg]_vars

\* Well-formed status fragments in any order, without end
NextStatus ==
    \E n \in StatusInputs :
        /\ Fits(n)
        /\ Deliver(n)
        /\ UNCHANGED ncalls

SpecStatus == Init /\ [][NextStatus]_vars

\* The values a format token can denote
TokenRange(tok) ==
    IF tok[1] = "int" THEN (-(2 ^ (tok[2] - 1)))..(2 ^ (tok[2] - 1) - 1)
    ELSE 0..(2 ^ tok[2] - 1)

\* _unpack applied on its own to packets of exactly the format's length: a
\* packet of one repeated byte in which up to MaxPokes bytes are replaced.
ProbeFill == {0, 255}

ProbeBytes == {127, 128}

MaxPokes == 2

FormatBytes(name) == FormatBits(PACKET_FORMATS[name]) \div 8

InitUnpack ==
    /\ InitHandler
    /\ _subscriptions = StreamNames
    /\ threads = NoThreads
    /\ probe \in {[kind |-> "unpack", name |-> nm,
                   packet |-> [i \in 1..FormatBytes(nm) |-> f],
                   pokes |-> 0, done |-> FALSE,
                   out |-> [err |-> FALSE, vals |-> <<>>]] :
                       nm \in StreamNames, f \in ProbeFill}

PokeByte ==
    \E i \in 1..Len(probe.packet), b \in ProbeBytes :
        /\ ~probe.done
        /\ probe.pokes < MaxPokes
        /\ probe' = [probe EXCEPT !.packet[i] = b, !.pokes = @ + 1]
        /\ UNCHANGED <<handler, emitted, raised, last, filled, flushed, run,
                       seq, ncalls, threads>>

ApplyUnpack ==
    /\ ~probe.done
    /\ probe' = [probe EXCEPT !.done = TRUE,
                              !.out = _unpack(probe.packet, PACKET_FORMATS[probe.name])]
    /\ UNCHANGED <<handler, emitted, raised, last, filled, flushed, run,
                   seq, ncalls, threads>>

NextUnpack == PokeByte \/ ApplyUnpack

SpecUnpack == InitUnpack /\ [][NextUnpack]_vars

\* The eeg conversion applied on its own to every 12-bit raw value, as
\* process_packet applies it to the decoded fields after the sample index.
InitConvert ==
    /\ InitHandler
    /\ _subscriptions = StreamNames
    /\ threads = NoThreads
    /\ probe \in {[kind |-> "convert", raw |-> r, done |-> FALSE, out |-> <<>>] :
                      r \in TokenRange(<<"uint", 12>>)}

ApplyConvert ==
    /\ ~probe.done
    /\ probe' = [probe EXCEPT !.done = TRUE,
                              !.out = CONVERT_FUNCS("eeg", Payload(<<0, probe.raw>>))]
    /\ UNCHANGED <<handler, emitted, raised, last, filled, flushed, run,
                   seq, ncalls, threads>>

NextConvert == ApplyConvert

SpecConvert == InitConvert /\ [][NextConvert]_vars

\* Eeg notifications in any order with notifications of other streams in
\* between, without end
InterleavedInputs ==
    {Notification(h, EEG_A) : h \in DOMAIN EEG_HANDLE_CH_IDXS}
        \cup {Notification(35, EEG_B), Notification(44, EEG_B),
              Notification(23, ACC_A), Notification(14, ST_OPEN)}

NextInterleaved ==
    \E n \in InterleavedInputs :
        /\ Fits(n)
        /\ Deliver(n)
        /\ UNCHANGED ncalls

SpecInterleaved == Init /\ [][NextInterleaved]_vars

\* Eeg notifications delivered on two threads at once.  The handler takes
\* no lock, so the threads interleave between the statements of
\* process_packet: lines 124-136 touch no shared buffer, line 137 stores the
\* sample index, line 138 stores the converted row, lines 139-141 flush.
Threads == {"t1", "t2"}

ThreadInputs ==
    {Notification(h, p) : h \in {32, 35}, p \in {EEG_A, EEG_B}}

Idle == [pc |-> "idle", handle |-> 0, packet |-> <<>>]

InitThreads ==
    /\ InitHandler
    /\ _subscriptions = StreamNames
    /\ probe = NoProbe
    /\ threads = [t \in Threads |-> Idle]

ThreadFrame == UNCHANGED <<_subscriptions, _message, filled, flushed, run, seq,
                           ncalls, probe>>

\* lines 124-136: name, unpacked, data and idx are locals of the call
Begin(t, n) ==
    /\ threads[t].pc = "idle"
    /\ ~LookupName(n.handle).err
    /\ LookupName(n.handle).name = "eeg"
    /\ ~_unpack(n.packet, PACKET_FORMATS["eeg"]).err
    /\ ~NotSubscribed("eeg", _subscriptions)
    /\ threads' = [threads EXCEPT ![t] =
                      [pc |-> "137", handle |-> n.handle, packet |-> n.packet]]
    /\ UNCHANGED <<_sample_idxs, _chunks, emitted, raised, last>>
    /\ ThreadFrame

\* line 137
WriteIndex(t) ==
    LET unpacked == _unpack(threads[t].packet, PACKET_FORMATS["eeg"]).vals
        idx == EEG_HANDLE_CH_IDXS[threads[t].handle]
    IN  /\ threads[t].pc = "137"
        /\ _sample_idxs' =
              [_sample_idxs EXCEPT !["eeg"][idx + 1] = SampleIndex(unpacked)]
        /\ threads' = [threads EXCEPT ![t].pc = "138"]
        /\ UNCHANGED <<_chunks, emitted, raised, last>>
        /\ ThreadFrame

\* line 138
WriteChunk(t) ==
    LET unpacked == _unpack(threads[t].packet, PACKET_FORMATS["eeg"]).vals
        idx == EEG_HANDLE_CH_IDXS[threads[t].handle]
    IN  /\ threads[t].pc = "138"
        /\ _chunks' =
              [_chunks EXCEPT !["eeg"] =
                  SetRow(_chunks["eeg"], idx, CONVERT_FUNCS("eeg", Payload(unpacked)))]
        /\ threads' = [threads EXCEPT ![t].pc = "139"]
        /\ UNCHANGED <<_sample_idxs, emitted, raised, last>>
        /\ ThreadFrame

\* lines 139-141, and the call returns
Flush(t) ==
    /\ threads[t].pc = "139"
    /\ emitted' =
          IF IsLastExpected(threads[t].handle)
          THEN <<Emission("eeg", _sample_idxs["eeg"], _chunks["eeg"])>>
          ELSE <<>>
    /\ raised' = "none"
    /\ last' = Notification(threads[t].handle, threads[t].packet)
    /\ threads' = [threads EXCEPT ![t] = Idle]
    /\ UNCHANGED <<_sample_idxs, _chunks>>
    /\ ThreadFrame

NextThreads ==
    \E t \in Threads :
        \/ \E n \in ThreadInputs : Begin(t, n)
        \/ WriteIndex(t)
        \/ WriteChunk(t)
        \/ Flush(t)

SpecThreads == InitThreads /\ [][NextThreads]_vars

(***************************************************************************)
(* Properties                                                              *)
(***************************************************************************)
EegEmissions == EmittedOf("eeg", emitted)

ZeroRow == [c \in 1..chunk_size["eeg"] |-> 0]

C3_StatusReassembly ==
    ("status" \in _subscriptions /\ last.handle = 14 /\ seq.text # <<>>
        /\ ~seq.early) =>
        IF seq.text[Len(seq.text)] = RBRACE
        THEN literal_eval(RemoveNewlines(seq.text)).ok =>
                /\ emitted = <<Emission("status", <<-1>>,
                                        literal_eval(RemoveNewlines(seq.text)).val)>>
                /\ seq.emits = 1
                /\ _message = <<>>
        ELSE seq.emits = 0 /\ emitted = <<>>

\* C3 witness: {"a": 1} arrived in two fragments and was emitted as a record.
C3_Witness ==
    /\ "status" \in _subscriptions
    /\ last = Notification(14, ST_CLOSE)
    /\ seq.text = <<LBRACE, QUOTE, 97, QUOTE, COLON, SPACE, 49, RBRACE>>
    /\ ~seq.early
    /\ Len(emitted) = 1
    /\ _message = <<>>

\* C4 (as claimed): a notification whose byte length differs from its
\* stream's format length, shorter or longer, fails with the format error and
\* emits nothing.
C4_WrongLengthRejected ==
    (last.handle \in DOMAIN HANDLE_NAMES /\ ncalls > 0 /\ ~WellFormed(last)) =>
        raised = "ReadError" /\ emitted = <<>>

\* C5: a notification from a handle that is not in HANDLE_NAMES ends with a
\* KeyError raised before anything is done: no emission, and the handler's
\* state is left as it was, so later notifications are processed as if it
\* had not arrived.
C5_UnknownSourceDropped ==
    [][(ncalls' # ncalls /\ last'.handle \notin DOMAIN HANDLE_NAMES) =>
          /\ raised' = "KeyError"
          /\ emitted' = <<>>
          /\ UNCHANGED handler]_vars

\* C5 witness: an unmapped handle arrives after the handler has built state.
C5_Witness ==
    /\ last.handle \notin DOMAIN HANDLE_NAMES
    /\ raised = "KeyError"
    /\ ncalls = 3
    /\ _message # <<>>
    /\ _sample_idxs["accelerometer"] # 0

\* C6 (as claimed): when a terminating fragment arrives and the accumulated
\* text does not parse, nothing is emitted and the accumulated buffer is
\* discarded.
C6_ParseErrorDiscardsBuffer ==
    raised = "SyntaxError" => (emitted = <<>> /\ _message = <<>>)

C8_UnsubscribedSilent ==
    (ncalls > 0 /\ WellFormed(last) /\ StreamOf(last) \notin _subscriptions) =>
        emitted = <<>> /\ raised = "none"

\* C8 witness: the emitting eeg handle arrives third at a handler that is
\* subscribed to other streams only and has emitted for them.
C8_Witness ==
    /\ ncalls = 3
    /\ last = Notification(35, EEG_A)
    /\ "eeg" \notin _subscriptions
    /\ _sample_idxs["gyroscope"] # 0
    /\ emitted = <<>>

C11_UnpackFieldsInRange ==
    (probe.kind = "unpack" /\ probe.done) =>
        LET fmt == PACKET_FORMATS[probe.name]
        IN  /\ ~probe.out.err
            /\ Len(probe.out.vals) = Len(fmt)
            /\ \A i \in 1..Len(fmt) : probe.out.vals[i] \in TokenRange(fmt[i])

\* C11 witness: an accelerometer packet decoded to the most negative value.
C11_Witness ==
    /\ probe.kind = "unpack"
    /\ probe.done
    /\ probe.name = "accelerometer"
    /\ probe.pokes = 1
    /\ \E i \in 2..10 : probe.out.vals[i] = -32768

\* C12: the eeg conversion maps every raw 12-bit value raw to
\* 0.48828125 * (raw - 2048), that is (125 / 256) * (raw - 2048): 2048 to 0
\* and 4095 to 0.48828125 * 2047.  Values are kept over EEG_DEN.
C12_EegConversion ==
    (probe.kind = "convert" /\ probe.done) =>
        /\ Len(probe.out) = 1
        /\ 256 * probe.out[1] = EEG_DEN * 125 * (probe.raw - 2048)
        /\ probe.raw = 2048 => probe.out[1] = 0
        /\ probe.raw = 4095 => 256 * probe.out[1] = EEG_DEN * 125 * 2047

\* C12 witness: the largest raw value has been converted.
C12_Witness ==
    /\ probe.kind = "convert"
    /\ probe.done
    /\ probe.raw = 4095
    /\ probe.out = <<255875>>

\* The latest call processed a status fragment at a subscribed handler.
StatusProcessed ==
    /\ "status" \in _subscriptions
    /\ last.handle \in DOMAIN HANDLE_NAMES
    /\ StreamOf(last) = "status"
    /\ Decodes(last)

Contains(s, c) == \E i \in 1..Len(s) : s[i] = c

\* C13 (as claimed): once process_packet has returned, the message buffer
\* holds no closing brace, also when a fragment's valid content has a closing
\* brace that is not its last character.  (Calls that end in a parse failure
\* are left to C6.)
C13_NoBraceLeftInBuffer ==
    raised # "SyntaxError" => ~Contains(_message, RBRACE)

\* C14 (as claimed): only the first `length` codes of a fragment are appended
\* and tested for the terminator, codes beyond them never trigger an
\* emission, and a fragment of declared length 0 appends nothing, emits
\* nothing and raises no error.
C14_OnlyDeclaredLength ==
    [][("status" \in _subscriptions /\ last'.handle = 14 /\ Decodes(last')) =>
          LET part == StatusPartial(Fields(last'))
          IN  /\ \/ _message' = <<>>
                 \/ RemoveNewlines(_message') = RemoveNewlines(_message \o part)
              /\ emitted' # <<>> => (part # <<>> /\ part[Len(part)] = RBRACE)
              /\ part = <<>> =>
                    (_message' = _message /\ emitted' = <<>> /\ raised' = "none")]_vars

\* C15 (as claimed): after a status fragment has been processed the buffer
\* holds no line break, and the terminator test applies to the last
\* character that is not a line break, so valid content ending in a closing
\* brace and a line break is parsed, emitted and the buffer reset.
C15_LineBreaksStrippedOnAppend ==
    StatusProcessed =>
        LET part == RemoveNewlines(StatusPartial(Fields(last)))
        IN  /\ ~Contains(_message, NEWLINE)
            /\ (part # <<>> /\ part[Len(part)] = RBRACE) =>
                  \/ raised = "SyntaxError"
                  \/ emitted # <<>> /\ _message = <<>>

\* C18 (as claimed): with status subscribed, processing a well-formed status
\* fragment returns normally, leaves every recorded sample index and chunk
\* buffer as it was and emits at most one (status, -1, record).  (Fragments
\* of length 0 and parse failures are left to C14 and C6.)
C18_StatusTouchesOnlyMessage ==
    (StatusProcessed /\ WellFormed(last)
        /\ raised \notin {"IndexError", "SyntaxError"}) =>
        /\ raised = "none"
        /\ _sample_idxs["status"] = 0
        /\ _chunks["status"] = ZeroMatrix("status")
        /\ Len(emitted) <= 1

====
